---- MODULE Spec2Model ----
(***************************************************************************)
(* The Chat component of YewChat (src/YewChat/src/components/chat.rs):     *)
(* create, update (Msg::HandleMsg, Msg::SubmitMessage) and view, together  *)
(* with the wire codec the serde derives give WebSocketMessage and         *)
(* MessageData.                                                            *)
(*                                                                         *)
(* A Rust String is a record: [json |-> FALSE, chars |-> cs] is a text     *)
(* with the characters cs that is not a JSON document, and                 *)
(* [json |-> TRUE, doc |-> v] is the text of the JSON document v.  User    *)
(* names, message bodies and the input field hold texts of the first kind. *)
(***************************************************************************)
EXTENDS Naturals, Sequences, FiniteSets, TLC

VARIABLES
    users,             \* Chat.users: Vec<UserProfile>
    messages,          \* Chat.messages: Vec<MessageData>
    current_user,      \* Chat.current_user: String
    chat_input,        \* Chat.chat_input: the <input> the NodeRef is bound to, with its value
    tx,                \* Chat.wss.tx: the texts queued in the outbound channel
    rx_open,           \* whether the receiving end of wss.tx is still alive
    context_username,  \* the username held by the User context
    status,            \* "running", or "panicked" once an unwrap() has failed
    ret,               \* what the last update() returned: "true", "false", "panic" ("none" after create)
    inbox,             \* history: the frames delivered to Msg::HandleMsg, in order
    offered,           \* history: the texts handed to wss.tx.try_send, in order
    send_result        \* history: the result of the last try_send, "Ok" or "Err"

vars == <<users, messages, current_user, chat_input, tx, rx_open, context_username,
          status, ret, inbox, offered, send_result>>

----------------------------------------------------------------------------
(* Bounds *)

MaxFrames == 3

MaxSubmits == 1

ChanCap == 1

----------------------------------------------------------------------------
(* Texts *)

Plain(cs) == [json |-> FALSE, chars |-> cs]

JsonText(v) == [json |-> TRUE, doc |-> v]

EmptyString == Plain(<< >>)

None == [some |-> FALSE]

Some(v) == [some |-> TRUE, v |-> v]

\* JSON values
JNull == [t |-> "null"]

JStr(s) == [t |-> "str", s |-> s]

JArr(xs) == [t |-> "arr", xs |-> xs]

JObj(f) == [t |-> "obj", f |-> f]

JNum(n) == [t |-> "num", n |-> n]

\* str::ends_with on the characters of a text.  The text of a JSON document
\* ends in a bracket, a quote, a digit or a keyword, never in ".gif".
EndsWith(s, suffix) ==
    /\ ~s.json
    /\ Len(s.chars) >= Len(suffix)
    /\ SubSeq(s.chars, Len(s.chars) - Len(suffix) + 1, Len(s.chars)) = suffix

\* format!("{prefix}{}", u)
Format(prefix, u) == Plain(prefix \o u.chars)

RECURSIVE MapSeq(_, _)
MapSeq(Op(_), s) == IF s = << >> THEN << >> ELSE << Op(Head(s)) >> \o MapSeq(Op, Tail(s))

----------------------------------------------------------------------------
(* The wire codec *)

MsgTypes == {"Users", "Register", "Message"}

\* #[serde(rename_all = "lowercase")] on MsgTypes
VariantTag(t) ==
    CASE t = "Users"    -> Plain(<<"u", "s", "e", "r", "s">>)
      [] t = "Register" -> Plain(<<"r", "e", "g", "i", "s", "t", "e", "r">>)
      [] t = "Message"  -> Plain(<<"m", "e", "s", "s", "a", "g", "e">>)

Ok(v) == [ok |-> TRUE, v |-> v]

Err == [ok |-> FALSE]

\* Deserialize for MsgTypes: a JSON string naming a variant
DecodeMsgType(v) ==
    IF v.t = "str" /\ \E t \in MsgTypes : VariantTag(t) = v.s
    THEN Ok(CHOOSE t \in MsgTypes : VariantTag(t) = v.s)
    ELSE Err

\* Deserialize for Option<String>
DecodeOptString(v) ==
    CASE v.t = "null" -> Ok(None)
      [] v.t = "str"  -> Ok(Some(v.s))
      [] OTHER        -> Err

\* Deserialize for Option<Vec<String>>
DecodeOptStringVec(v) ==
    CASE v.t = "null" -> Ok(None)
      [] v.t = "arr" /\ (\A i \in 1..Len(v.xs) : v.xs[i].t = "str")
                      -> Ok(Some([i \in 1..Len(v.xs) |-> v.xs[i].s]))
      [] OTHER        -> Err

\* Deserialize for String
DecodeString(v) == IF v.t = "str" THEN Ok(v.s) ELSE Err

WebSocketMessage(mt, da, d) == [message_type |-> mt, data_array |-> da, data |-> d]

\* serde_json::from_str::<WebSocketMessage>: a JSON object with the camelCase
\* keys (a missing Option field is None, unknown keys are skipped) or a JSON
\* array of exactly the three fields in declaration order.
DecodeWebSocketMessage(s) ==
    IF ~s.json THEN Err
    ELSE LET v == s.doc IN
      CASE v.t = "obj" ->
             LET f  == v.f
                 mt == IF "messageType" \in DOMAIN f THEN DecodeMsgType(f.messageType) ELSE Err
                 da == IF "dataArray" \in DOMAIN f THEN DecodeOptStringVec(f.dataArray) ELSE Ok(None)
                 d  == IF "data" \in DOMAIN f THEN DecodeOptString(f.data) ELSE Ok(None)
             IN IF mt.ok /\ da.ok /\ d.ok THEN Ok(WebSocketMessage(mt.v, da.v, d.v)) ELSE Err
        [] v.t = "arr" ->
             IF Len(v.xs) # 3 THEN Err
             ELSE LET mt == DecodeMsgType(v.xs[1])
                      da == DecodeOptStringVec(v.xs[2])
                      d  == DecodeOptString(v.xs[3])
                  IN IF mt.ok /\ da.ok /\ d.ok THEN Ok(WebSocketMessage(mt.v, da.v, d.v)) ELSE Err
        [] OTHER -> Err

\* a faulty variant of DecodeMessageData: absent fields default to the empty string
DecodeMessageDataDefaulting(s) ==
    IF ~s.json \/ s.doc.t # "obj" THEN Err
    ELSE LET f == s.doc.f
             fr == IF "from" \in DOMAIN f THEN DecodeString(f.from) ELSE Ok(EmptyString)
             me == IF "message" \in DOMAIN f THEN DecodeString(f.message) ELSE Ok(EmptyString)
         IN IF fr.ok /\ me.ok THEN Ok([from |-> fr.v, message |-> me.v]) ELSE Err

\* serde_json::from_str::<MessageData>: both fields are required strings
DecodeMessageData(s) ==
    IF ~s.json THEN Err
    ELSE LET v == s.doc IN
      CASE v.t = "obj" ->
             LET f  == v.f
                 fr == IF "from" \in DOMAIN f THEN DecodeString(f.from) ELSE Err
                 me == IF "message" \in DOMAIN f THEN DecodeString(f.message) ELSE Err
             IN IF fr.ok /\ me.ok THEN Ok([from |-> fr.v, message |-> me.v]) ELSE Err
        [] v.t = "arr" ->
             IF Len(v.xs) # 2 THEN Err
             ELSE LET fr == DecodeString(v.xs[1])
                      me == DecodeString(v.xs[2])
                  IN IF fr.ok /\ me.ok THEN Ok([from |-> fr.v, message |-> me.v]) ELSE Err
        [] OTHER -> Err

EncodeOptString(o) == IF o.some THEN JStr(o.v) ELSE JNull

EncodeOptStringVec(o) ==
    IF o.some THEN JArr([i \in 1..Len(o.v) |-> JStr(o.v[i])]) ELSE JNull

\* serde_json::to_string(&WebSocketMessage): every field is written, None as null
SerializeWebSocketMessage(m) ==
    JsonText(JObj([messageType |-> JStr(VariantTag(m.message_type)),
                   dataArray   |-> EncodeOptStringVec(m.data_array),
                   data        |-> EncodeOptString(m.data)]))

----------------------------------------------------------------------------
(* The component *)

AvatarPrefix ==
    << "h", "t", "t", "p", "s", ":", "/", "/", "a", "p", "i", ".", "d", "i", "c", "e",
       "b", "e", "a", "r", ".", "c", "o", "m", "/", "7", ".", "x", "/", "a", "d", "v",
       "e", "n", "t", "u", "r", "e", "r", "-", "n", "e", "u", "t", "r", "a", "l", "/",
       "s", "v", "g", "?", "s", "e", "e", "d", "=" >>

UserProfile(u) == [name |-> u, avatar |-> Format(AvatarPrefix, u)]

\* the fields of Chat that update() reads and writes
Self == [users |-> users, messages |-> messages, current_user |-> current_user]

\* create: the envelope announcing the session user
RegisterMessage(username) == WebSocketMessage("Register", None, Some(username))

\* a faulty variant of Create: the name read from the context is not kept
CreateForgetsUser(username) ==
    [users |-> << >>, messages |-> << >>, current_user |-> EmptyString]

\* create: the component returned
Create(username) ==
    [users |-> << >>, messages |-> << >>, current_user |-> username]

\* a faulty variant of SetUsers: the roster is extended instead of replaced
SetUsersExtending(self, users_from_message) ==
    [self EXCEPT !.users = self.users \o MapSeq(UserProfile, users_from_message)]

\* update, MsgTypes::Users: self.users = users_from_message.iter().map(..).collect()
SetUsers(self, users_from_message) ==
    [self EXCEPT !.users = MapSeq(UserProfile, users_from_message)]

\* a faulty variant of PushMessage: the new message goes to the front
PushMessageFront(self, message_data) ==
    [self EXCEPT !.messages = << message_data >> \o self.messages]

\* update, MsgTypes::Message: self.messages.push(message_data)
PushMessage(self, message_data) ==
    [self EXCEPT !.messages = Append(self.messages, message_data)]

\* a faulty variant of OtherFrameReturn: the catch-all arm asks for a render
OtherFrameReturnTrue == "true"

\* update, the `_` arm of the match on message_type
OtherFrameReturn == "false"

\* Option::unwrap_or_default on data_array
UnwrapOrDefault(o) == IF o.some THEN o.v ELSE << >>

\* update, Msg::HandleMsg(s), as a function of the component: the component
\* afterwards and what update returned ("panic" when an unwrap failed)
UpdateHandleMsg(self, s) ==
    LET msg == DecodeWebSocketMessage(s) IN
    IF ~msg.ok THEN [self |-> self, ret |-> "panic"]
    ELSE CASE msg.v.message_type = "Users" ->
                [self |-> SetUsers(self, UnwrapOrDefault(msg.v.data_array)), ret |-> "true"]
           [] msg.v.message_type = "Message" ->
                IF ~msg.v.data.some THEN [self |-> self, ret |-> "panic"]
                ELSE LET message_data == DecodeMessageData(msg.v.data.v) IN
                     IF ~message_data.ok THEN [self |-> self, ret |-> "panic"]
                     ELSE [self |-> PushMessage(self, message_data.v), ret |-> "true"]
           [] OTHER -> [self |-> self, ret |-> OtherFrameReturn]

\* a faulty variant of SubmitEnvelope: the envelope built in create is reused
SubmitEnvelopeAsRegister(value) == WebSocketMessage("Register", None, Some(value))

\* update, Msg::SubmitMessage: the envelope carrying the field's value
SubmitEnvelope(value) == WebSocketMessage("Message", None, Some(value))

\* a faulty variant of InputAfterSubmit: the field is cleared only after a send that worked
InputAfterSubmitOnlyOnOk(value, result) == IF result = "Ok" THEN EmptyString ELSE value

\* update, Msg::SubmitMessage: input.set_value("") after the send, whatever its result
InputAfterSubmit(value, result) == EmptyString

\* Sender::try_send on the outbound channel: the text is queued unless the
\* channel is full or its receiver is gone
TrySend(queue, open, text) ==
    IF open /\ Len(queue) < ChanCap
    THEN [queue |-> Append(queue, text), result |-> "Ok"]
    ELSE [queue |-> queue, result |-> "Err"]

----------------------------------------------------------------------------
(* view *)

You == Plain(<<"Y", "o", "u">>)

DotGif == <<".", "g", "i", "f">>

\* view, the sidebar: one entry per element of self.users, in order
SidebarEntry(u, cu) ==
    LET is_current_user == (u.name = cu) IN
    [ class  |-> IF is_current_user THEN "bg-blue-600 border-blue-500"
                 ELSE "bg-gray-700 border-gray-600 hover:bg-gray-600",
      avatar |-> u.avatar,
      name   |-> u.name,
      badge  |-> IF is_current_user THEN Some(You) ELSE None,
      status |-> IF is_current_user THEN "That's you!" ELSE "Online" ]

Sidebar(us, cu) == [i \in 1..Len(us) |-> SidebarEntry(us[i], cu)]

\* a faulty variant of FindUser: any roster entry will do
FindUserAny(us, from) == IF us # << >> THEN Some(us[1]) ELSE None

\* self.users.iter().find(|u| u.name == m.from)
FindUser(us, from) ==
    IF \E i \in 1..Len(us) : us[i].name = from
    THEN Some(us[CHOOSE i \in 1..Len(us) :
                    /\ us[i].name = from
                    /\ \A j \in 1..(i - 1) : us[j].name # from])
    ELSE None

\* a faulty variant of IsGif: the dot of the suffix is lost
IsGifNoDot(message) == EndsWith(message, <<"g", "i", "f">>)

\* m.message.ends_with(".gif")
IsGif(message) == EndsWith(message, DotGif)

EmptyHtml == [tag |-> "empty"]

\* a faulty variant of MessageHtml: the entry is built whether or not a profile was found
MessageHtmlAlways(m, user, cu) ==
    LET is_current_user == (m.from = cu) IN
    [ tag    |-> "div",
      class  |-> IF is_current_user THEN "flex items-end justify-end w-full mb-4"
                 ELSE "flex items-end w-full mb-4",
      left   |-> None,
      header |-> IF is_current_user THEN You ELSE m.from,
      body   |-> IF IsGif(m.message) THEN [tag |-> "img", src |-> m.message]
                 ELSE [tag |-> "text", text |-> m.message],
      right  |-> None ]

\* view, one element of the feed: html!{} when no profile matches the sender
MessageHtml(m, user, cu) ==
    LET is_current_user == (m.from = cu) IN
    IF user.some
    THEN [ tag    |-> "div",
           class  |-> IF is_current_user THEN "flex items-end justify-end w-full mb-4"
                      ELSE "flex items-end w-full mb-4",
           left   |-> IF ~is_current_user THEN Some(user.v.avatar) ELSE None,
           header |-> IF is_current_user THEN You ELSE m.from,
           body   |-> IF IsGif(m.message) THEN [tag |-> "img", src |-> m.message]
                      ELSE [tag |-> "text", text |-> m.message],
           right  |-> IF is_current_user THEN Some(user.v.avatar) ELSE None ]
    ELSE EmptyHtml

\* view, the feed: self.messages.iter().map(..), one node per message
FeedNodes(ms, us, cu) ==
    [i \in 1..Len(ms) |-> MessageHtml(ms[i], FindUser(us, ms[i].from), cu)]

IsRendered(node) == node.tag # "empty"

\* what the feed shows: the nodes that are not html!{}
Feed(ms, us, cu) == SelectSeq(FeedNodes(ms, us, cu), IsRendered)

----------------------------------------------------------------------------
(* Inputs *)

Alice == Plain(<<"a">>)

Bob == Plain(<<"b">>)

CatGif == Plain(<<"c", "a", "t", ".", "g", "i", "f">>)

Gif == Plain(<<"g", "i", "f">>)

\* the names the User context may hold when the component is created
SessionNames == {Alice, Bob}

\* what the user may type into the field
InputTexts == {EmptyString, CatGif}

UsersTag == JStr(VariantTag("Users"))

MessageTag == JStr(VariantTag("Message"))

RegisterTag == JStr(VariantTag("Register"))

\* a roster as the server writes it
UsersFrame(names) ==
    JsonText(JObj([messageType |-> UsersTag,
                   dataArray   |-> JArr([i \in 1..Len(names) |-> JStr(names[i])])]))

\* a roster envelope without the dataArray key
UsersFrameNoArray == JsonText(JObj([messageType |-> UsersTag]))

\* a roster envelope written as a JSON array of the three fields
UsersFrameAsArray(names) ==
    JsonText(JArr(<< UsersTag, JArr([i \in 1..Len(names) |-> JStr(names[i])]), JNull >>))

\* the payload of a chat message as the server writes it, with its time stamp
PayloadText(from, message) ==
    JsonText(JObj([from |-> JStr(from), message |-> JStr(message), time |-> JNum(0)]))

MessageFrame(from, message) ==
    JsonText(JObj([messageType |-> MessageTag, data |-> JStr(PayloadText(from, message))]))

RegisterFrame(name) ==
    JsonText(JObj([messageType |-> RegisterTag, data |-> JStr(name)]))

UsersFrames ==
    { UsersFrame(<<Alice>>), UsersFrameAsArray(<<Bob, Alice>>), UsersFrameNoArray }

Payloads == { [from |-> Alice, message |-> CatGif], [from |-> Bob, message |-> Gif] }

MessageFrames == {MessageFrame(p.from, p.message) : p \in Payloads}

RegisterFrames == {RegisterFrame(Alice)}

\* frames that are not an envelope: not JSON, no messageType, an unknown tag
MalformedEnvelopes ==
    { CatGif,
      JsonText(JObj([data |-> JStr(Alice)])),
      JsonText(JObj([messageType |-> JStr(Plain(<<"p", "i", "n", "g">>))])) }

\* `message` envelopes whose data is absent or is no {from, message} payload:
\* no data key, data that is not JSON (the envelope SubmitMessage itself
\* writes), a payload without `message`, a payload whose `from` is null
MalformedMessages ==
    { JsonText(JObj([messageType |-> MessageTag])),
      SerializeWebSocketMessage(SubmitEnvelope(CatGif)),
      JsonText(JObj([messageType |-> MessageTag,
                     data |-> JStr(JsonText(JObj([from |-> JStr(Alice)])))])),
      JsonText(JObj([messageType |-> MessageTag,
                     data |-> JStr(JsonText(JObj([from |-> JNull, message |-> JStr(Gif)])))])) }

BadFrames == MalformedEnvelopes \cup MalformedMessages

Frames == UsersFrames \cup MessageFrames \cup RegisterFrames \cup BadFrames

----------------------------------------------------------------------------
(* The state machine *)

\* create(ctx): the username is read from the User context, the register
\* envelope is offered to a channel that WebsocketService::new() has just
\* made, and the component starts with empty lists and an unbound NodeRef.
Init ==
    \E username \in SessionNames :
        LET self    == Create(username)
            message == SerializeWebSocketMessage(RegisterMessage(username))
            sent    == TrySend(<< >>, TRUE, message)
        IN /\ context_username = username
           /\ users = self.users
           /\ messages = self.messages
           /\ current_user = self.current_user
           /\ chat_input = None
           /\ tx = sent.queue
           /\ rx_open = TRUE
           /\ offered = << message >>
           /\ send_result = sent.result
           /\ status = "running"
           /\ ret = "none"
           /\ inbox = << >>

\* update(ctx, Msg::HandleMsg(s))
HandleMsg(s) ==
    /\ status = "running"
    /\ Len(inbox) < MaxFrames
    /\ LET r == UpdateHandleMsg(Self, s) IN
         /\ users' = r.self.users
         /\ messages' = r.self.messages
         /\ current_user' = r.self.current_user
         /\ ret' = r.ret
         /\ status' = IF r.ret = "panic" THEN "panicked" ELSE "running"
    /\ inbox' = Append(inbox, s)
    /\ UNCHANGED <<chat_input, tx, rx_open, context_username, offered, send_result>>

\* update(ctx, Msg::SubmitMessage), sent by the button that view makes: the
\* first render has happened
SubmitMessage ==
    /\ status = "running"
    /\ chat_input.some
    /\ Len(offered) < MaxSubmits + 1
    /\ IF chat_input.some
       THEN LET message == SerializeWebSocketMessage(SubmitEnvelope(chat_input.v))
                sent    == TrySend(tx, rx_open, message)
            IN /\ tx' = sent.queue
               /\ offered' = Append(offered, message)
               /\ send_result' = sent.result
               /\ chat_input' = Some(InputAfterSubmit(chat_input.v, sent.result))
       ELSE UNCHANGED <<tx, offered, send_result, chat_input>>
    /\ ret' = "false"
    /\ UNCHANGED <<users, messages, current_user, rx_open, context_username, status, inbox>>

\* the first render binds chat_input to the <input> of view, which is empty
FirstRender ==
    /\ status = "running"
    /\ ~chat_input.some
    /\ chat_input' = Some(EmptyString)
    /\ UNCHANGED <<users, messages, current_user, tx, rx_open, context_username,
                   status, ret, inbox, offered, send_result>>

\* the user edits the <input>
UserTypes(text) ==
    /\ status = "running"
    /\ chat_input.some
    /\ chat_input.v # text
    /\ chat_input' = Some(text)
    /\ UNCHANGED <<users, messages, current_user, tx, rx_open, context_username,
                   status, ret, inbox, offered, send_result>>

\* the websocket task takes the next text off the channel
WsTakes ==
    /\ status = "running"
    /\ rx_open
    /\ tx # << >>
    /\ tx' = Tail(tx)
    /\ UNCHANGED <<users, messages, current_user, chat_input, rx_open, context_username,
                   status, ret, inbox, offered, send_result>>

\* the websocket task ends and drops the receiver with whatever is queued
WsCloses ==
    /\ status = "running"
    /\ rx_open
    /\ rx_open' = FALSE
    /\ tx' = << >>
    /\ UNCHANGED <<users, messages, current_user, chat_input, context_username,
                   status, ret, inbox, offered, send_result>>

Next ==
    \/ \E s \in Frames : HandleMsg(s)
    \/ SubmitMessage
    \/ FirstRender
    \/ \E text \in InputTexts : UserTypes(text)
    \/ WsTakes
    \/ WsCloses

Spec == Init /\ [][Next]_vars

----------------------------------------------------------------------------
(* What the properties are stated against: the frames of the input set read *)
(* by hand, and the envelopes written out character by character            *)

Last(s) == s[Len(s)]

FrameStep == Len(inbox') = Len(inbox) + 1

SubmitStep == Len(offered') = Len(offered) + 1

\* the list of names a roster frame of the input set carries
RosterOfFrame(f) ==
    CASE f = UsersFrame(<<Alice>>)              -> <<Alice>>
      [] f = UsersFrameAsArray(<<Bob, Alice>>)  -> <<Bob, Alice>>
      [] f = UsersFrameNoArray                  -> << >>

\* the {from, message} a well-formed message frame of the input set carries
PayloadOfFrame(f) ==
    CASE f = MessageFrame(Alice, CatGif) -> [from |-> Alice, message |-> CatGif]
      [] f = MessageFrame(Bob, Gif)      -> [from |-> Bob, message |-> Gif]

RECURSIVE PayloadsOf(_)
PayloadsOf(log) ==
    IF log = << >> THEN << >>
    ELSE IF Head(log) \in MessageFrames
         THEN << PayloadOfFrame(Head(log)) >> \o PayloadsOf(Tail(log))
         ELSE PayloadsOf(Tail(log))

\* the roster of the most recent roster frame of the log, empty when there is none
LatestRoster(log) ==
    LET at == {i \in 1..Len(log) : log[i] \in UsersFrames} IN
    IF at = {} THEN << >>
    ELSE RosterOfFrame(log[CHOOSE i \in at : \A j \in at : j <= i])

InRoster(name) == \E j \in 1..Len(users) : users[j].name = name

\* {"messageType":<tag>,"dataArray":null,"data":<text>}
EnvelopeText(tag, text) ==
    JsonText(JObj([messageType |-> JStr(Plain(tag)), dataArray |-> JNull, data |-> JStr(text)]))

RegisterWord == <<"r", "e", "g", "i", "s", "t", "e", "r">>

MessageWord == <<"m", "e", "s", "s", "a", "g", "e">>

RightAligned == "flex items-end justify-end w-full mb-4"

LeftAligned == "flex items-end w-full mb-4"

TheFeedNodes == FeedNodes(messages, users, current_user)

TheFeed == Feed(messages, users, current_user)

TheSidebar == Sidebar(users, current_user)

----------------------------------------------------------------------------
(* Properties *)

\* C1: after any sequence of frames, users (and so the sidebar) holds exactly
\* one entry per name of the most recent `users` envelope, in its order, with
\* the avatar URL seeded by the name; an absent dataArray counts as the empty
\* list, and nothing of earlier rosters is kept.
C1_RosterIsLatest ==
    LET roster == LatestRoster(inbox) IN
    /\ Len(users) = Len(roster)
    /\ \A i \in 1..Len(roster) :
         /\ users[i].name = roster[i]
         /\ users[i].avatar = Plain(AvatarPrefix \o roster[i].chars)
    /\ Len(TheSidebar) = Len(roster)
    /\ \A i \in 1..Len(roster) :
         /\ TheSidebar[i].name = roster[i]
         /\ TheSidebar[i].avatar = Plain(AvatarPrefix \o roster[i].chars)

\* a two-name roster followed by a one-name roster leaves the one name
C1_Witness ==
    /\ Len(inbox) = 2
    /\ inbox[1] = UsersFrameAsArray(<<Bob, Alice>>)
    /\ inbox[2] = UsersFrame(<<Alice>>)
    /\ Len(users) = 1
    /\ users[1].name = Alice

\* C2: a well-formed `message` frame makes messages one longer, its new last
\* entry is the {from, message} of the frame's data and the earlier entries
\* keep values and places; so messages is always the payloads of the message
\* frames received, in arrival order.
C2_MessagesAppend ==
    /\ [](messages = PayloadsOf(inbox))
    /\ [][ (FrameStep /\ Last(inbox') \in MessageFrames) =>
             /\ Len(messages') = Len(messages) + 1
             /\ Last(messages') = PayloadOfFrame(Last(inbox'))
             /\ SubSeq(messages', 1, Len(messages)) = messages ]_vars

C2_Witness ==
    /\ Len(messages) = 2
    /\ messages[1] = [from |-> Bob, message |-> Gif]
    /\ messages[2] = [from |-> Alice, message |-> CatGif]

\* C3: a message whose sender has no profile in users renders nothing although
\* it stays in messages; after a single `message` frame with no roster yet,
\* the feed is empty and messages has one entry.
C3_UnknownSenderHidden ==
    /\ Len(TheFeedNodes) = Len(messages)
    /\ \A i \in 1..Len(messages) :
         ~InRoster(messages[i].from) => TheFeedNodes[i] = EmptyHtml
    /\ (Len(inbox) = 1 /\ inbox[1] \in MessageFrames) =>
         (TheFeed = << >> /\ Len(messages) = 1)

\* a roster that holds someone else: the message is kept and not shown
C3_Witness ==
    /\ users # << >>
    /\ Len(messages) = 1
    /\ ~InRoster(messages[1].from)
    /\ TheFeed = << >>

\* C4: the first text offered to the transport is the register envelope with
\* the session username as data, and no text offered later, whatever frames
\* and submits were handled, is a register envelope.
C4_RegisterOnce ==
    /\ Len(offered) >= 1
    /\ offered[1] = EnvelopeText(RegisterWord, context_username)
    /\ \A i \in 2..Len(offered) :
         offered[i].doc.f.messageType # JStr(Plain(RegisterWord))

C4_Witness ==
    /\ Len(offered) = 2
    /\ Len(inbox) >= 2
    /\ \E i \in 1..Len(inbox) : inbox[i] \in RegisterFrames

\* C5: a submit with the field bound offers one `message` envelope whose data
\* is the field's text as it stands (the empty text too), queues it when the
\* send works and not otherwise, and in both cases leaves the field empty and
\* the component running.
C5_SubmitClearsInput ==
    [][ SubmitStep =>
          /\ chat_input.some
          /\ offered' = Append(offered, EnvelopeText(MessageWord, chat_input.v))
          /\ chat_input' = Some(EmptyString)
          /\ status' = "running"
          /\ send_result' \in {"Ok", "Err"}
          /\ (send_result' = "Ok" => tx' = Append(tx, EnvelopeText(MessageWord, chat_input.v)))
          /\ (send_result' = "Err" => tx' = tx) ]_vars

\* "cat.gif" was submitted, the send failed, the field is empty and a frame
\* has been handled since
C5_Witness ==
    /\ Len(offered) = 2
    /\ offered[2] = EnvelopeText(MessageWord, CatGif)
    /\ send_result = "Err"
    /\ chat_input = Some(EmptyString)
    /\ status = "running"
    /\ ret = "true"

\* C6: current_user is the name the session context supplied at creation, in
\* every reachable state.
C6_CurrentUserFixed ==
    /\ current_user = context_username
    /\ current_user \in SessionNames

\* a roster without the session user, a message and a submit have gone by
C6_Witness ==
    /\ users # << >>
    /\ ~InRoster(current_user)
    /\ messages # << >>
    /\ Len(offered) = 2

\* C7: a frame that is no envelope, or a `message` envelope whose data is
\* absent or is no {from, message} payload, ends in a panic and leaves users
\* and messages as they were.
C7_BadFrameFatal ==
    [][ (FrameStep /\ Last(inbox') \in BadFrames) =>
          /\ ret' = "panic"
          /\ status' = "panicked"
          /\ users' = users
          /\ messages' = messages ]_vars

C7_Witness ==
    /\ status = "panicked"
    /\ Last(inbox) \in MalformedMessages
    /\ users # << >>
    /\ messages # << >>

\* C8: a message whose sender is in users is right-aligned and headed "You"
\* when the sender is current_user, left-aligned and headed by the sender's
\* name otherwise; its body is an image when the text ends in ".gif" and text
\* otherwise.
C8_RenderedMessage ==
    \A i \in 1..Len(messages) :
        InRoster(messages[i].from) =>
            LET m     == messages[i]
                node  == TheFeedNodes[i]
                n     == Len(m.message.chars)
                isGif == /\ n >= 4
                         /\ m.message.chars[n - 3] = "."
                         /\ m.message.chars[n - 2] = "g"
                         /\ m.message.chars[n - 1] = "i"
                         /\ m.message.chars[n] = "f"
            IN /\ node.tag = "div"
               /\ (m.from = current_user =>
                     node.class = RightAligned /\ node.header = Plain(<<"Y", "o", "u">>))
               /\ (m.from # current_user =>
                     node.class = LeftAligned /\ node.header = m.from)
               /\ (isGif => node.body = [tag |-> "img", src |-> m.message])
               /\ (~isGif => node.body = [tag |-> "text", text |-> m.message])

\* "cat.gif" submitted by the session user and echoed back while the user is in
\* the roster: an image, right-aligned, headed "You"
C8_Witness ==
    /\ Len(offered) = 2
    /\ offered[2] = EnvelopeText(MessageWord, CatGif)
    /\ Len(messages) = 1
    /\ messages[1] = [from |-> current_user, message |-> CatGif]
    /\ Len(TheFeed) = 1
    /\ TheFeed[1].body.tag = "img"
    /\ TheFeed[1].class = RightAligned
    /\ TheFeed[1].header = You

\* C9: only frames write users and messages; a `users` frame leaves messages
\* alone, a `message` frame leaves users alone, a `register` frame and a
\* submit leave both alone; update returns true for `users` and `message`
\* frames and false for `register` frames and submits.
C9_IndependentReducers ==
    [][ /\ (inbox' = inbox => (users' = users /\ messages' = messages))
        /\ ((FrameStep /\ Last(inbox') \in UsersFrames) =>
              (messages' = messages /\ ret' = "true"))
        /\ ((FrameStep /\ Last(inbox') \in MessageFrames) =>
              (users' = users /\ ret' = "true"))
        /\ ((FrameStep /\ Last(inbox') \in RegisterFrames) =>
              (users' = users /\ messages' = messages /\ ret' = "false"))
        /\ ((FrameStep /\ ret' = "true") =>
              Last(inbox') \in UsersFrames \cup MessageFrames)
        /\ (SubmitStep =>
              (users' = users /\ messages' = messages /\ ret' = "false")) ]_vars

\* a roster, then a register frame, then a submit of "cat.gif": nothing is in
\* messages
C9_Witness ==
    /\ Len(offered) = 2
    /\ offered[2] = EnvelopeText(MessageWord, CatGif)
    /\ ret = "false"
    /\ messages = << >>
    /\ users # << >>
    /\ inbox # << >>
    /\ Last(inbox) \in RegisterFrames

\* C10: in every state the feed is the rendering of exactly those messages, in
\* insertion order, whose sender is named in the current users list.
C10_FeedFollowsRoster ==
    LET Visible(m) == InRoster(m.from)
        shown == SelectSeq(messages, Visible)
    IN /\ Len(TheFeed) = Len(shown)
       /\ \A k \in 1..Len(shown) :
            /\ TheFeed[k].tag = "div"
            /\ TheFeed[k].header \in {You, shown[k].from}
            /\ \/ TheFeed[k].body = [tag |-> "img", src |-> shown[k].message]
               \/ TheFeed[k].body = [tag |-> "text", text |-> shown[k].message]

\* a message that arrived before any roster, then a roster with its sender,
\* then a roster without: it is in messages and not in the feed
C10_Witness ==
    /\ Len(inbox) = 3
    /\ inbox[1] = MessageFrame(Alice, CatGif)
    /\ inbox[2] = UsersFrame(<<Alice>>)
    /\ inbox[3] = UsersFrameNoArray
    /\ Len(messages) = 1
    /\ TheFeed = << >>

====
